---- MODULE Spec2Model ----
(***************************************************************************)
(* Data model of the streaming catalog (schema.ts): the five table         *)
(* declarations, the relation declarations and the four insert validators  *)
(* derived from the tables, together with the store the declarations       *)
(* describe (rows, serial sequences, NOT NULL / UNIQUE / FOREIGN KEY        *)
(* constraints and column defaults).                                       *)
(***************************************************************************)
EXTENDS Integers, Sequences, FiniteSets, TLC

VARIABLES store, seq, last

vars == <<store, seq, last>>

(***************************************************************************)
(* Bounds of the model.                                                    *)
(***************************************************************************)
\* rows a table may hold, and values a serial sequence may hand out
MaxRows == 2
\* how far outside 0..100 the progress values tried go
MaxOver == 1
\* fields a validator payload is edited in, starting from a base payload
MaxEdits == 1

(***************************************************************************)
(* JavaScript values of payloads and rows, tagged with their run-time type. *)
(***************************************************************************)
Str(s) == [t |-> "string", v |-> s]
Num(n) == [t |-> "number", v |-> n]
Bool(b) == [t |-> "boolean", v |-> b]
Date(d) == [t |-> "date", v |-> d]
Null == [t |-> "null"]

\* the value defaultNow() stores: the clock is not part of the schema
Now == Date("now")

RECURSIVE Repeat(_)
Repeat(n) ==
    IF n = 0 THEN ""
    ELSE IF n % 2 = 1 THEN "x" \o Repeat(n - 1)
    ELSE LET half == Repeat(n \div 2) IN half \o half

(***************************************************************************)
(* Column builders of drizzle-orm/pg-core, as the schema uses them.  A      *)
(* column is a record; length 0 stands for "no length declared".           *)
(***************************************************************************)
NoDefault == [kind |-> "none"]
NoReference == [table |-> "", column |-> "", onDelete |-> "no action"]

Column(name, sqlType, dataType, length) ==
    [name |-> name, sqlType |-> sqlType, dataType |-> dataType, length |-> length,
     precision |-> 0, scale |-> 0,
     notNull |-> FALSE, hasDefault |-> FALSE, default |-> NoDefault,
     primary |-> FALSE, isUnique |-> FALSE, ref |-> NoReference]

varchar(name, length) == Column(name, "varchar", "string", length)
text(name) == Column(name, "text", "string", 0)
integer(name) == Column(name, "integer", "number", 0)
boolean(name) == Column(name, "boolean", "boolean", 0)
timestamp(name) == Column(name, "timestamp", "date", 0)
\* numeric(precision, scale); numeric values travel as strings in the driver
decimal(name, precision, scale) ==
    [Column(name, "numeric", "string", 0) EXCEPT !.precision = precision, !.scale = scale]
\* serial: integer NOT NULL DEFAULT nextval(sequence)
serial(name) ==
    [Column(name, "serial", "number", 0) EXCEPT !.notNull = TRUE, !.hasDefault = TRUE,
                                                !.default = [kind |-> "nextval"]]

notNull(c) == [c EXCEPT !.notNull = TRUE]
primaryKey(c) == [c EXCEPT !.primary = TRUE, !.notNull = TRUE]
unique(c) == [c EXCEPT !.isUnique = TRUE]
default(c, val) == [c EXCEPT !.hasDefault = TRUE, !.default = [kind |-> "value", v |-> val]]
defaultNow(c) == [c EXCEPT !.hasDefault = TRUE, !.default = [kind |-> "value", v |-> Now]]
references(c, table, column) ==
    [c EXCEPT !.ref = [table |-> table, column |-> column, onDelete |-> "no action"]]
referencesCascade(c, table, column) ==
    [c EXCEPT !.ref = [table |-> table, column |-> column, onDelete |-> "cascade"]]

(***************************************************************************)
(* Table declarations: TypeScript key |-> column.                          *)
(***************************************************************************)
\* variants of the declarations, each with one modifier changed
usersEmailNotUnique ==
    [id |-> notNull(primaryKey(varchar("id", 0))),
     email |-> varchar("email", 0),
     firstName |-> varchar("first_name", 0),
     lastName |-> varchar("last_name", 0),
     profileImageUrl |-> varchar("profile_image_url", 0),
     subscriptionTier |-> default(varchar("subscription_tier", 0), Str("free")),
     createdAt |-> defaultNow(timestamp("created_at")),
     updatedAt |-> defaultNow(timestamp("updated_at"))]

seriesStatusWithoutDefault ==
    [id |-> primaryKey(serial("id")),
     title |-> notNull(varchar("title", 255)),
     description |-> text("description"),
     posterUrl |-> varchar("poster_url", 500),
     coverUrl |-> varchar("cover_url", 500),
     genre |-> varchar("genre", 100),
     country |-> varchar("country", 100),
     language |-> varchar("language", 50),
     year |-> integer("year"),
     rating |-> decimal("rating", 3, 1),
     totalEpisodes |-> integer("total_episodes"),
     status |-> varchar("status", 50),
     subscriptionRequired |-> default(varchar("subscription_required", 0), Str("free")),
     isFeatured |-> default(boolean("is_featured"), Bool(FALSE)),
     createdAt |-> defaultNow(timestamp("created_at"))]

episodesSeriesIdNotNull ==
    [id |-> primaryKey(serial("id")),
     seriesId |-> notNull(references(integer("series_id"), "series", "id")),
     episodeNumber |-> notNull(integer("episode_number")),
     title |-> notNull(varchar("title", 255)),
     description |-> text("description"),
     thumbnailUrl |-> varchar("thumbnail_url", 500),
     videoUrl |-> varchar("video_url", 500),
     duration |-> integer("duration"),
     subscriptionRequired |-> default(varchar("subscription_required", 0), Str("free")),
     releasedAt |-> defaultNow(timestamp("released_at")),
     createdAt |-> defaultNow(timestamp("created_at"))]

favoritesUniqueUser ==
    [id |-> primaryKey(serial("id")),
     userId |-> unique(references(varchar("user_id", 0), "users", "id")),
     seriesId |-> references(integer("series_id"), "series", "id"),
     createdAt |-> defaultNow(timestamp("created_at"))]

favoritesCascade ==
    [id |-> primaryKey(serial("id")),
     userId |-> referencesCascade(varchar("user_id", 0), "users", "id"),
     seriesId |-> referencesCascade(integer("series_id"), "series", "id"),
     createdAt |-> defaultNow(timestamp("created_at"))]

users ==
    [id |-> notNull(primaryKey(varchar("id", 0))),
     email |-> unique(varchar("email", 0)),
     firstName |-> varchar("first_name", 0),
     lastName |-> varchar("last_name", 0),
     profileImageUrl |-> varchar("profile_image_url", 0),
     subscriptionTier |-> default(varchar("subscription_tier", 0), Str("free")),
     createdAt |-> defaultNow(timestamp("created_at")),
     updatedAt |-> defaultNow(timestamp("updated_at"))]

series ==
    [id |-> primaryKey(serial("id")),
     title |-> notNull(varchar("title", 255)),
     description |-> text("description"),
     posterUrl |-> varchar("poster_url", 500),
     coverUrl |-> varchar("cover_url", 500),
     genre |-> varchar("genre", 100),
     country |-> varchar("country", 100),
     language |-> varchar("language", 50),
     year |-> integer("year"),
     rating |-> decimal("rating", 3, 1),
     totalEpisodes |-> integer("total_episodes"),
     status |-> default(varchar("status", 50), Str("ongoing")),
     subscriptionRequired |-> default(varchar("subscription_required", 0), Str("free")),
     isFeatured |-> default(boolean("is_featured"), Bool(FALSE)),
     createdAt |-> defaultNow(timestamp("created_at"))]

episodes ==
    [id |-> primaryKey(serial("id")),
     seriesId |-> references(integer("series_id"), "series", "id"),
     episodeNumber |-> notNull(integer("episode_number")),
     title |-> notNull(varchar("title", 255)),
     description |-> text("description"),
     thumbnailUrl |-> varchar("thumbnail_url", 500),
     videoUrl |-> varchar("video_url", 500),
     duration |-> integer("duration"),
     subscriptionRequired |-> default(varchar("subscription_required", 0), Str("free")),
     releasedAt |-> defaultNow(timestamp("released_at")),
     createdAt |-> defaultNow(timestamp("created_at"))]

watchHistory ==
    [id |-> primaryKey(serial("id")),
     userId |-> references(varchar("user_id", 0), "users", "id"),
     episodeId |-> references(integer("episode_id"), "episodes", "id"),
     seriesId |-> references(integer("series_id"), "series", "id"),
     watchedAt |-> defaultNow(timestamp("watched_at")),
     progressPercentage |-> default(integer("progress_percentage"), Num(0)),
     completed |-> default(boolean("completed"), Bool(FALSE))]

favorites ==
    [id |-> primaryKey(serial("id")),
     userId |-> references(varchar("user_id", 0), "users", "id"),
     seriesId |-> references(integer("series_id"), "series", "id"),
     createdAt |-> defaultNow(timestamp("created_at"))]

TableNames == {"users", "series", "episodes", "watchHistory", "favorites"}

Table(name) ==
    CASE name = "users" -> users
      [] name = "series" -> series
      [] name = "episodes" -> episodes
      [] name = "watchHistory" -> watchHistory
      [] name = "favorites" -> favorites

ColumnNames(name) == DOMAIN Table(name)
ColumnOf(name, key) == Table(name)[key]

(***************************************************************************)
(* drizzle-zod createInsertSchema and zod's object schema.  A schema is a  *)
(* shape: field key -> field schema.  A nullable column gives an optional, *)
(* nullable field; a NOT NULL column with a default an optional field; any *)
(* other column a required field.  varchar(n) adds max(n).                 *)
(***************************************************************************)
FieldSchema(c) ==
    [dataType |-> c.dataType, max |-> c.length,
     optional |-> (~c.notNull) \/ c.hasDefault,
     nullable |-> ~c.notNull]

createInsertSchema(name) == [k \in ColumnNames(name) |-> FieldSchema(Table(name)[k])]

omit(schema, keys) == [k \in (DOMAIN schema) \ keys |-> schema[k]]

\* the issues zod raises for one field; key absent from the payload = undefined
FieldIssues(key, field, payload) ==
    IF key \notin DOMAIN payload
    THEN IF field.optional THEN {} ELSE {[path |-> key, code |-> "invalid_type", message |-> "Required"]}
    ELSE LET val == payload[key] IN
         IF val.t = "null"
         THEN IF field.nullable THEN {}
              ELSE {[path |-> key, code |-> "invalid_type", message |-> "Expected " \o field.dataType]}
         ELSE IF val.t # field.dataType
         THEN {[path |-> key, code |-> "invalid_type", message |-> "Expected " \o field.dataType]}
         ELSE IF field.dataType = "string" /\ field.max > 0 /\ Len(val.v) > field.max
         THEN {[path |-> key, code |-> "too_big", message |-> "String too long"]}
         ELSE {}

\* z.object(shape).safeParse(payload): every field is parsed and all issues
\* are collected; keys outside the shape are stripped from the data
safeParse(schema, payload) ==
    LET issues == UNION {FieldIssues(k, schema[k], payload) : k \in DOMAIN schema}
    IN IF issues = {}
       THEN [success |-> TRUE, issues |-> {},
             data |-> [k \in (DOMAIN schema) \cap (DOMAIN payload) |-> payload[k]]]
       ELSE [success |-> FALSE, issues |-> issues]

(***************************************************************************)
(* Insert schemas.                                                         *)
(***************************************************************************)
\* variants of the insert schemas with a wrong omit list
insertSeriesSchemaOmitsTitle == omit(createInsertSchema("series"), {"id", "createdAt", "title"})
insertEpisodeSchemaOmitsNumber ==
    omit(createInsertSchema("episodes"), {"id", "createdAt", "episodeNumber"})
insertWatchHistorySchemaKeepsWatchedAt == omit(createInsertSchema("watchHistory"), {"id"})
insertWatchHistorySchemaOmitsCompleted ==
    omit(createInsertSchema("watchHistory"), {"id", "watchedAt", "completed"})

insertSeriesSchema == omit(createInsertSchema("series"), {"id", "createdAt"})

insertEpisodeSchema == omit(createInsertSchema("episodes"), {"id", "createdAt"})

insertWatchHistorySchema == omit(createInsertSchema("watchHistory"), {"id", "watchedAt"})

insertFavoriteSchema == omit(createInsertSchema("favorites"), {"id", "createdAt"})

InsertSchema(name) ==
    CASE name = "series" -> insertSeriesSchema
      [] name = "episodes" -> insertEpisodeSchema
      [] name = "watchHistory" -> insertWatchHistorySchema
      [] name = "favorites" -> insertFavoriteSchema

(***************************************************************************)
(* The store the declarations describe: store[t] is the set of rows of     *)
(* table t (a row maps every column key to a value), seq[t] the next value *)
(* of the serial sequence of t.                                            *)
(***************************************************************************)
SerialTables == {"series", "episodes", "watchHistory", "favorites"}

PrimaryKey(name) == CHOOSE k \in ColumnNames(name) : Table(name)[k].primary

\* the value a column gets when the insert does not supply it
DefaultValue(name, c, sq) ==
    CASE c.default.kind = "value" -> c.default.v
      [] c.default.kind = "nextval" -> Num(sq[name])
      [] OTHER -> Null

NewRow(name, values, sq) ==
    [k \in ColumnNames(name) |->
        IF k \in DOMAIN values THEN values[k] ELSE DefaultValue(name, Table(name)[k], sq)]

\* the numeric strings the model knows, with their number of digits before
\* the decimal point; any other string is no numeric literal
NumericDigits == ("4.5" :> 1) @@ ("123.4" :> 3)

\* val can be stored in column c: it fits varchar(n) and numeric(p, s)
Storable(c, val) ==
    \/ val = Null
    \/ /\ val.t = c.dataType
       /\ (c.sqlType = "varchar" /\ c.length > 0) => Len(val.v) <= c.length
       /\ c.sqlType = "numeric" =>
              /\ val.v \in DOMAIN NumericDigits
              /\ NumericDigits[val.v] <= c.precision - c.scale

\* the constraints of table `name` that `row` violates next to `others`
Violations(name, row, others, st) ==
    {"invalid_value:" \o k : k \in {k \in ColumnNames(name) : ~Storable(Table(name)[k], row[k])}}
    \cup {"not_null:" \o k : k \in {k \in ColumnNames(name) : Table(name)[k].notNull /\ row[k] = Null}}
    \cup {"unique:" \o k : k \in {k \in ColumnNames(name) :
              /\ Table(name)[k].isUnique \/ Table(name)[k].primary
              /\ row[k] # Null
              /\ \E o \in others : o[k] = row[k]}}
    \cup {"foreign_key:" \o k : k \in {k \in ColumnNames(name) :
              /\ Table(name)[k].ref.table # ""
              /\ row[k] # Null
              /\ ~\E p \in st[Table(name)[k].ref.table] : p[Table(name)[k].ref.column] = row[k]}}

\* rows, as <<table, row>>, that hold a foreign key to one of `targets`
Referencing(targets, st, action) ==
    {tr \in UNION {{<<t, r>> : r \in st[t]} : t \in TableNames} :
        \E k \in ColumnNames(tr[1]) : \E tg \in targets :
              /\ Table(tr[1])[k].ref.table = tg[1]
              /\ Table(tr[1])[k].ref.onDelete = action
              /\ tr[2][k] # Null
              /\ tr[2][k] = tg[2][Table(tr[1])[k].ref.column]}

RECURSIVE CascadeClosure(_, _)
CascadeClosure(targets, st) ==
    LET more == targets \cup Referencing(targets, st, "cascade")
    IN IF more = targets THEN targets ELSE CascadeClosure(more, st)

\* DELETE FROM name WHERE pk = id
dbDelete(name, id, st) ==
    LET hit == {<<name, r>> : r \in {r \in st[name] : r[PrimaryKey(name)] = id}}
        doomed == CascadeClosure(hit, st)
        blocked == Referencing(doomed, st, "no action") \ doomed
    IN IF hit = {} THEN [ok |-> TRUE, error |-> {}, store |-> st]
       ELSE IF blocked # {} THEN [ok |-> FALSE, error |-> {"foreign_key"}, store |-> st]
       ELSE [ok |-> TRUE, error |-> {},
             store |-> [t \in TableNames |-> {r \in st[t] : <<t, r>> \notin doomed}]]

\* INSERT INTO name (keys of values) VALUES (...)
dbInsert(name, values, st, sq) ==
    LET row == NewRow(name, values, sq)
        bad == Violations(name, row, st[name], st)
    IN IF bad # {} THEN [ok |-> FALSE, error |-> bad, store |-> st, seq |-> sq]
       ELSE [ok |-> TRUE, error |-> {}, row |-> row,
             store |-> [st EXCEPT ![name] = @ \cup {row}],
             seq |-> IF name \in SerialTables /\ PrimaryKey(name) \notin DOMAIN values
                     THEN [sq EXCEPT ![name] = @ + 1] ELSE sq]

\* UPDATE name SET (keys of values) WHERE pk = id
dbUpdate(name, id, values, st) ==
    LET hit == {r \in st[name] : r[PrimaryKey(name)] = id}
    IN IF hit = {} THEN [ok |-> TRUE, error |-> {}, store |-> st]
       ELSE LET old == CHOOSE r \in hit : TRUE
                new == [k \in ColumnNames(name) |-> IF k \in DOMAIN values THEN values[k] ELSE old[k]]
                bad == Violations(name, new, st[name] \ {old}, st)
            IN IF bad # {} THEN [ok |-> FALSE, error |-> bad, store |-> st]
               ELSE [ok |-> TRUE, error |-> {},
                     store |-> [st EXCEPT ![name] = (@ \ {old}) \cup {new}]]

Rows(st) == UNION {{<<t, r>> : r \in st[t]} : t \in TableNames}

(***************************************************************************)
(* Relation declarations.                                                  *)
(***************************************************************************)
one(target, fields, refs) == [kind |-> "one", target |-> target, fields |-> fields, references |-> refs]
many(target) == [kind |-> "many", target |-> target, fields |-> <<>>, references |-> <<>>]

\* variant: the user relation joins on the series column
favoritesRelationsWrongField ==
    [user |-> one("users", <<"favorites", "seriesId">>, <<"users", "id">>),
     series |-> one("series", <<"favorites", "seriesId">>, <<"series", "id">>)]

seriesRelations ==
    [episodes |-> many("episodes"),
     watchHistory |-> many("watchHistory"),
     favorites |-> many("favorites")]

episodesRelations ==
    [series |-> one("series", <<"episodes", "seriesId">>, <<"series", "id">>),
     watchHistory |-> many("watchHistory")]

usersRelations ==
    [watchHistory |-> many("watchHistory"),
     favorites |-> many("favorites")]

watchHistoryRelations ==
    [user |-> one("users", <<"watchHistory", "userId">>, <<"users", "id">>),
     episode |-> one("episodes", <<"watchHistory", "episodeId">>, <<"episodes", "id">>),
     series |-> one("series", <<"watchHistory", "seriesId">>, <<"series", "id">>)]

favoritesRelations ==
    [user |-> one("users", <<"favorites", "userId">>, <<"users", "id">>),
     series |-> one("series", <<"favorites", "seriesId">>, <<"series", "id">>)]

Relations(name) ==
    CASE name = "users" -> usersRelations
      [] name = "series" -> seriesRelations
      [] name = "episodes" -> episodesRelations
      [] name = "watchHistory" -> watchHistoryRelations
      [] name = "favorites" -> favoritesRelations

\* the 'one' relations of the target table that point back at `name`
Reverse(name, rel) ==
    {k \in DOMAIN Relations(rel.target) :
        /\ Relations(rel.target)[k].kind = "one"
        /\ Relations(rel.target)[k].target = name}

\* drizzle's normalizeRelation: a 'one' joins on its own fields; a 'many'
\* joins on the single reverse 'one' of the target table, and is an error
\* when there is none or more than one
normalizeRelation(name, rel) ==
    IF rel.kind = "one"
    THEN [ok |-> TRUE, fields |-> rel.fields, references |-> rel.references]
    ELSE IF Cardinality(Reverse(name, rel)) # 1
    THEN [ok |-> FALSE, fields |-> <<>>, references |-> <<>>]
    ELSE LET rev == Relations(rel.target)[CHOOSE k \in Reverse(name, rel) : TRUE]
         IN [ok |-> TRUE, fields |-> rev.references, references |-> rev.fields]

\* the rows the relation `key` of table `name` yields for `row` in a joined query
Related(name, key, row, st) ==
    LET rel == Relations(name)[key]
        n == normalizeRelation(name, rel)
    IN IF ~n.ok THEN {}
       ELSE {x \in st[rel.target] :
                /\ n.fields[2] \in DOMAIN row
                /\ row[n.fields[2]] # Null
                /\ n.references[2] \in DOMAIN x
                /\ x[n.references[2]] = row[n.fields[2]]}

(***************************************************************************)
(* Payloads.                                                               *)
(***************************************************************************)
Empty == [k \in {} |-> Null]
Opt(key, vals) == {Empty} \cup {key :> v : v \in vals}
Cross(A, B) == {a @@ b : a \in A, b \in B}
Without(payload, key) == [k \in (DOMAIN payload) \ {key} |-> payload[k]]
With(payload, key, val) == (key :> val) @@ payload

UserIds == {"u1", "u2"}
Emails == {"ana@bomi.tv", "bo@bomi.tv"}
SerialIds == 1 .. MaxRows
ProgressValues == {0 - MaxOver, 0, 100, 100 + MaxOver}

\* store specification: the foreign keys vary
UserPayloads == {"id" :> Str("u1")}
SeriesPayloads == {"title" :> Str("Test Drama")}
EpisodePayloads ==
    Cross(Opt("seriesId", {Null, Num(1)}), {[episodeNumber |-> Num(1), title |-> Str("Pilot")]})
WatchHistoryPayloads ==
    Cross(Cross(Opt("userId", {Str("u1")}), Opt("episodeId", {Num(1)})), Opt("seriesId", {Num(1)}))
FavoritePayloads ==
    Cross(Opt("userId", {Str("u1")}), Opt("seriesId", {Num(1)}))

\* defaults specification: the columns that have a default vary
UserTierPayloads ==
    Cross({"id" :> Str("u1")}, Opt("subscriptionTier", {Str("monthly"), Null}))
SeriesDefaultPayloads ==
    Cross(Cross({"title" :> Str("Test Drama")}, Opt("status", {Str("completed")})),
          Cross(Opt("isFeatured", {Bool(TRUE)}), Opt("subscriptionRequired", {Str("vip")})))
WatchDefaultPayloads ==
    Cross(Opt("progressPercentage", {Num(50)}), Opt("completed", {Bool(TRUE)}))

\* watch specification: progress and completed vary
WatchProgressPayloads ==
    Cross(Opt("progressPercentage", {Num(v) : v \in ProgressValues}),
          Opt("completed", {Bool(b) : b \in BOOLEAN}))
WatchUpdates ==
    {"progressPercentage" :> Num(v) : v \in ProgressValues}
    \cup {"completed" :> Bool(b) : b \in BOOLEAN}

\* users specification: id and email vary
UserEmailPayloads ==
    Cross(Opt("id", {Str(u) : u \in UserIds}), Opt("email", {Null} \cup {Str(e) : e \in Emails}))
UserUpdates ==
    {"email" :> v : v \in {Null} \cup {Str(e) : e \in Emails}}
    \cup {"subscriptionTier" :> Str("annual")}

\* validator specification: payloads a few edits away from five base payloads
SampleValues ==
    {Str("ok"), Str("4.5"), Str(Repeat(255)), Str(Repeat(256)), Str(Repeat(501)),
     Num(1), Bool(TRUE), Now, Null}

\* a value of the declared type of column c
ValidValue(c) ==
    CASE c.sqlType = "numeric" -> Str("4.5")
      [] c.dataType = "string" -> Str("ok")
      [] c.dataType = "number" -> Num(1)
      [] c.dataType = "boolean" -> Bool(TRUE)
      [] c.dataType = "date" -> Now

BasePayloads(name) ==
    {Empty,
     [k \in {k \in ColumnNames(name) : Table(name)[k].notNull /\ ~Table(name)[k].hasDefault} |->
         ValidValue(ColumnOf(name, k))],
     [k \in ColumnNames(name) |-> ValidValue(ColumnOf(name, k))],
     [k \in ColumnNames(name) |-> Null],
     [k \in ColumnNames(name) |-> Num(1)]}

RECURSIVE Edited(_, _, _)
Edited(S, keys, n) ==
    IF n = 0 THEN S
    ELSE Edited(S \cup {With(p, k, v) : p \in S, k \in keys, v \in SampleValues}
                  \cup {Without(p, k) : p \in S, k \in keys},
                keys, n - 1)

ValidatorPayloads(name) == Edited(BasePayloads(name), ColumnNames(name), MaxEdits)
SeriesValidatorPayloads == ValidatorPayloads("series")
EpisodeValidatorPayloads == ValidatorPayloads("episodes")
WatchHistoryValidatorPayloads == ValidatorPayloads("watchHistory")
FavoriteValidatorPayloads == ValidatorPayloads("favorites")

(***************************************************************************)
(* Operations on the store.  `last` records the outcome of the latest one. *)
(***************************************************************************)
NoRecord == [none |-> TRUE]

EmptyStore == [t \in TableNames |-> {}]
FirstSeq == [t \in SerialTables |-> 1]

Init ==
    /\ store = EmptyStore
    /\ seq = FirstSeq
    /\ last = [op |-> "none"]

\* the model stops inserting at MaxRows rows per table (TableRoom) or in the
\* whole store (HasRoom), and at MaxRows values of a sequence
TableRoom(name) ==
    /\ Cardinality(store[name]) < MaxRows
    /\ name \in SerialTables => seq[name] <= MaxRows

HasRoom(name) ==
    /\ Cardinality(Rows(store)) < MaxRows
    /\ name \in SerialTables => seq[name] <= MaxRows

\* validate the payload with the insert schema, then insert the normalized record
Insert(name, schema, payload) ==
    /\ LET parsed == safeParse(schema, payload)
       IN IF ~parsed.success
          THEN /\ last' = [op |-> "insert", table |-> name, payload |-> payload,
                           success |-> FALSE, issues |-> parsed.issues, data |-> NoRecord,
                           ok |-> FALSE, error |-> {}, row |-> NoRecord]
               /\ UNCHANGED <<store, seq>>
          ELSE LET res == dbInsert(name, parsed.data, store, seq)
               IN /\ store' = res.store
                  /\ seq' = res.seq
                  /\ last' = [op |-> "insert", table |-> name, payload |-> payload,
                              success |-> TRUE, issues |-> {}, data |-> parsed.data,
                              ok |-> res.ok, error |-> res.error,
                              row |-> IF res.ok THEN res.row ELSE NoRecord]

InsertSeries(payload) == Insert("series", insertSeriesSchema, payload)
InsertEpisode(payload) == Insert("episodes", insertEpisodeSchema, payload)
InsertWatchHistory(payload) == Insert("watchHistory", insertWatchHistorySchema, payload)
InsertFavorite(payload) == Insert("favorites", insertFavoriteSchema, payload)

\* users have no insert schema: the typed value goes to the store as it is
InsertUser(payload) ==
    /\ LET res == dbInsert("users", payload, store, seq)
       IN /\ store' = res.store
          /\ seq' = res.seq
          /\ last' = [op |-> "insert", table |-> "users", payload |-> payload,
                      success |-> TRUE, issues |-> {}, data |-> payload,
                      ok |-> res.ok, error |-> res.error,
                      row |-> IF res.ok THEN res.row ELSE NoRecord]

Update(name, id, values) ==
    /\ \E r \in store[name] : r[PrimaryKey(name)] = id
    /\ LET res == dbUpdate(name, id, values, store)
       IN /\ store' = res.store
          /\ last' = [op |-> "update", table |-> name, id |-> id, payload |-> values,
                      ok |-> res.ok, error |-> res.error]
          /\ UNCHANGED seq

UpdateUser(id, values) == Update("users", id, values)
UpdateWatchHistory(id, values) == Update("watchHistory", id, values)

Delete(name, id) ==
    /\ \E r \in store[name] : r[PrimaryKey(name)] = id
    /\ LET res == dbDelete(name, id, store)
       IN /\ store' = res.store
          /\ last' = [op |-> "delete", table |-> name, id |-> id,
                      ok |-> res.ok, error |-> res.error]
          /\ UNCHANGED seq

DeleteUser(id) == Delete("users", id)
DeleteSeries(id) == Delete("series", id)
DeleteEpisode(id) == Delete("episodes", id)

\* the whole schema, few rows
Next ==
    \/ HasRoom("users") /\ \E p \in UserPayloads : InsertUser(p)
    \/ HasRoom("series") /\ \E p \in SeriesPayloads : InsertSeries(p)
    \/ HasRoom("episodes") /\ \E p \in EpisodePayloads : InsertEpisode(p)
    \/ HasRoom("watchHistory") /\ \E p \in WatchHistoryPayloads : InsertWatchHistory(p)
    \/ HasRoom("favorites") /\ \E p \in FavoritePayloads : InsertFavorite(p)
    \/ \E u \in UserIds : DeleteUser(Str(u))
    \/ \E i \in SerialIds : DeleteSeries(Num(i))
    \/ \E i \in SerialIds : DeleteEpisode(Num(i))

Spec == Init /\ [][Next]_vars

\* users, series and favorites
NextFavorites ==
    \/ TableRoom("users") /\ \E p \in UserPayloads : InsertUser(p)
    \/ TableRoom("series") /\ \E p \in SeriesPayloads : InsertSeries(p)
    \/ TableRoom("favorites") /\ \E p \in FavoritePayloads : InsertFavorite(p)

SpecFavorites == Init /\ [][NextFavorites]_vars

\* inserts that leave out or supply the columns with a default
NextDefaults ==
    \/ HasRoom("users") /\ \E p \in UserTierPayloads : InsertUser(p)
    \/ HasRoom("series") /\ \E p \in SeriesDefaultPayloads : InsertSeries(p)
    \/ HasRoom("watchHistory") /\ \E p \in WatchDefaultPayloads : InsertWatchHistory(p)

SpecDefaults == Init /\ [][NextDefaults]_vars

\* watch history rows and their direct updates
NextWatch ==
    \/ TableRoom("watchHistory") /\ \E p \in WatchProgressPayloads : InsertWatchHistory(p)
    \/ \E i \in SerialIds : \E p \in WatchUpdates : UpdateWatchHistory(Num(i), p)

SpecWatch == Init /\ [][NextWatch]_vars

\* user rows: inserts, updates and deletes
NextUsers ==
    \/ TableRoom("users") /\ \E p \in UserEmailPayloads : InsertUser(p)
    \/ \E u \in UserIds : \E p \in UserUpdates : UpdateUser(Str(u), p)
    \/ \E u \in UserIds : DeleteUser(Str(u))

SpecUsers == Init /\ [][NextUsers]_vars

\* one validated insert into the empty store, for every payload
Fresh == last.op = "none"

NextValidate ==
    \/ Fresh /\ \E p \in SeriesValidatorPayloads : InsertSeries(p)
    \/ Fresh /\ \E p \in EpisodeValidatorPayloads : InsertEpisode(p)
    \/ Fresh /\ \E p \in WatchHistoryValidatorPayloads : InsertWatchHistory(p)
    \/ Fresh /\ \E p \in FavoriteValidatorPayloads : InsertFavorite(p)

\* the validators are applied to the empty store and to a store that already
\* holds a series and one of its episodes (the result of two inserts)
SeededSeries == dbInsert("series", "title" :> Str("Test Drama"), EmptyStore, FirstSeq)
SeededEpisode ==
    dbInsert("episodes", [seriesId |-> Num(1), episodeNumber |-> Num(1), title |-> Str("Pilot")],
             SeededSeries.store, SeededSeries.seq)

InitValidate ==
    /\ \E s \in {[store |-> EmptyStore, seq |-> FirstSeq],
                  [store |-> SeededEpisode.store, seq |-> SeededEpisode.seq]} :
           store = s.store /\ seq = s.seq
    /\ last = [op |-> "none"]

SpecValidate == InitValidate /\ [][NextValidate]_vars

(***************************************************************************)
(* What the claims say about the entities, in the claims' own terms.       *)
(***************************************************************************)
Get(payload, key) == IF key \in DOMAIN payload THEN payload[key] ELSE Null

RequiredFields(name) ==
    CASE name = "series" -> {"title"}
      [] name = "episodes" -> {"episodeNumber", "title"}
      [] OTHER -> {}

ExcludedFields(name) ==
    CASE name = "watchHistory" -> {"id", "watchedAt"}
      [] OTHER -> {"id", "createdAt"}

InsertFields(name) == ColumnNames(name) \ ExcludedFields(name)

\* val is a value of the declared type of column key: the JavaScript type of
\* the column, within the declared length, or null for a nullable column
OfDeclaredType(name, key, val) ==
    LET c == ColumnOf(name, key)
    IN IF val = Null THEN ~c.notNull
       ELSE /\ val.t = c.dataType
            /\ (c.dataType = "string" /\ c.length > 0) => Len(val.v) <= c.length

\* all required fields present, and every field of the entity that is present
\* (excluded ones aside) holds a value of its declared type
Acceptable(name, payload) ==
    /\ RequiredFields(name) \subseteq DOMAIN payload
    /\ \A k \in (DOMAIN payload) \cap InsertFields(name) : OfDeclaredType(name, k, payload[k])

Offending(name, payload) ==
    {k \in RequiredFields(name) : k \notin DOMAIN payload}
    \cup {k \in (DOMAIN payload) \cap InsertFields(name) : ~OfDeclaredType(name, k, payload[k])}

ValidatedInsert == last.op = "insert" /\ last.table \in SerialTables

\* C1: each insert validator fails on a payload that lacks a required field
\* of its entity and succeeds on every payload that holds all required
\* fields and values of the declared types, whatever optional fields it has.
C1_RequiredFields ==
    ValidatedInsert =>
        /\ (\E k \in RequiredFields(last.table) : k \notin DOMAIN last.payload) => ~last.success
        /\ Acceptable(last.table, last.payload) => last.success

C1_Witness ==
    /\ ValidatedInsert /\ last.table = "episodes"
    /\ "title" \in DOMAIN last.payload /\ "episodeNumber" \notin DOMAIN last.payload
    /\ ~last.success

\* C2: the excluded system-generated fields are never required, supplying
\* them with any value does not make an otherwise valid payload fail, and
\* the normalized record does not contain them.
C2_ExcludedFields ==
    (ValidatedInsert /\ Acceptable(last.table, last.payload)) =>
        /\ last.success
        /\ (DOMAIN last.data) \cap ExcludedFields(last.table) = {}
        /\ last.data = [k \in (DOMAIN last.payload) \cap InsertFields(last.table) |-> last.payload[k]]

C2_Witness ==
    /\ ValidatedInsert /\ last.table = "watchHistory"
    /\ "watchedAt" \in DOMAIN last.payload /\ last.payload["watchedAt"].t = "number"
    /\ "id" \in DOMAIN last.payload
    /\ last.success /\ "watchedAt" \notin DOMAIN last.data

\* C7: a failed validation names exactly the offending fields (every missing
\* required field, every field of a wrong type, no other), returns no
\* normalized record and changes no stored row.
C7_ValidationError ==
    [][(last'.op = "insert" /\ last'.table \in SerialTables /\ ~last'.success) =>
          /\ {i.path : i \in last'.issues} = Offending(last'.table, last'.payload)
          /\ last'.issues # {}
          /\ last'.data = NoRecord
          /\ store' = store /\ seq' = seq]_vars

C7_Witness ==
    /\ ValidatedInsert /\ last.table = "episodes" /\ ~last.success
    /\ {i.path : i \in last.issues} = {"episodeNumber", "title", "duration"}
    /\ Rows(store) # {}

Defaulted(name) ==
    CASE name = "users" -> [subscriptionTier |-> Str("free")]
      [] name = "series" -> [status |-> Str("ongoing"), isFeatured |-> Bool(FALSE),
                             subscriptionRequired |-> Str("free")]
      [] name = "watchHistory" -> [completed |-> Bool(FALSE), progressPercentage |-> Num(0)]
      [] OTHER -> Empty

\* C3: a row inserted without a defaulted column carries the declared
\* default (User: subscriptionTier "free"; Series: status "ongoing",
\* isFeatured false, subscriptionRequired "free"; WatchHistory: completed
\* false, progressPercentage 0), a Series with only a title is accepted,
\* and a supplied value is stored instead of the default.
C3_Defaults ==
    last.op = "insert" =>
        /\ (last.table = "series" /\ DOMAIN last.payload = {"title"}) => last.ok
        /\ last.ok =>
              /\ last.row \in store[last.table]
              /\ \A k \in DOMAIN Defaulted(last.table) :
                    last.row[k] = IF k \in DOMAIN last.payload THEN last.payload[k]
                                  ELSE Defaulted(last.table)[k]

C3_Witness ==
    /\ last.op = "insert" /\ last.table = "series" /\ last.ok
    /\ last.payload = ("title" :> Str("Test Drama"))
    /\ \E r \in store["series"] :
          r["status"] = Str("ongoing") /\ r["isFeatured"] = Bool(FALSE)
          /\ r["subscriptionRequired"] = Str("free")

\* C4: inserting a Favorite whose (userId, seriesId) pair equals that of a
\* stored Favorite is accepted, and afterwards the store holds both rows,
\* which differ in their generated id.
C4_DuplicateFavorites ==
    [][(/\ last'.op = "insert" /\ last'.table = "favorites"
        /\ \E f \in store["favorites"] :
              /\ f["userId"] = Get(last'.payload, "userId")
              /\ f["seriesId"] = Get(last'.payload, "seriesId"))
       => /\ last'.success /\ last'.ok
          /\ last'.row \notin store["favorites"]
          /\ store'["favorites"] = store["favorites"] \cup {last'.row}
          /\ last'.row["userId"] = Get(last'.payload, "userId")
          /\ last'.row["seriesId"] = Get(last'.payload, "seriesId")
          /\ \A f \in store["favorites"] : f["id"] # last'.row["id"]]_vars

C4_Witness ==
    \E f, g \in store["favorites"] :
        /\ f["id"] # g["id"]
        /\ f["userId"] = Str("u1") /\ g["userId"] = Str("u1")
        /\ f["seriesId"] = Num(1) /\ g["seriesId"] = Num(1)

\* C5 as stated: no two stored users have the same email, and no two share
\* an id.
C5_EmailsAllDistinct ==
    \A u, v \in store["users"] :
        u # v => (u["email"] # v["email"] /\ u["id"] # v["id"])

UsersDistinct(rows) ==
    \A u, v \in rows :
        u # v => (u["id"] # v["id"] /\ (u["email"] # Null => u["email"] # v["email"]))

\* C5, amended: no two stored users share an id or an email that is not
\* null (users without an email may coexist); an insert or update that
\* would give a second user an email held by another is rejected and
\* leaves the users unchanged; an insert without an id is rejected.
C5_EmailUnique ==
    [][/\ UsersDistinct(store'["users"])
       /\ (/\ last'.table = "users" /\ last'.op \in {"insert", "update"}
           /\ Get(last'.payload, "email") # Null
           /\ \E u \in store["users"] :
                 /\ u["email"] = Get(last'.payload, "email")
                 /\ last'.op = "update" => u["id"] # last'.id)
          => (~last'.ok /\ store' = store)
       /\ (last'.table = "users" /\ last'.op = "insert" /\ "id" \notin DOMAIN last'.payload)
          => (~last'.ok /\ store' = store)]_vars

C5_Witness ==
    /\ last.op = "update" /\ last.table = "users" /\ ~last.ok
    /\ Cardinality(store["users"]) = 2
    /\ \E u \in store["users"] : u["email"] = last.payload["email"] /\ u["id"] # last.id

ForeignKeys ==
    {<<"episodes", "seriesId", "series">>,
     <<"watchHistory", "userId", "users">>,
     <<"watchHistory", "episodeId", "episodes">>,
     <<"watchHistory", "seriesId", "series">>,
     <<"favorites", "userId", "users">>,
     <<"favorites", "seriesId", "series">>}

Dependents(st, name, id) ==
    UNION {{<<fk[1], r>> : r \in {r \in st[fk[1]] : r[fk[2]] = id}} :
              fk \in {fk \in ForeignKeys : fk[3] = name}}

\* C6: deleting a User, Series or Episode row never removes or modifies the
\* Episode, WatchHistory or Favorite rows that reference it.
C6_DeleteKeepsDependents ==
    [][last'.op = "delete" =>
          \A d \in Dependents(store, last'.table, last'.id) : d[2] \in store'[d[1]]]_vars

C6_Witness ==
    /\ last.op = "delete" /\ last.table = "users"
    /\ \E d \in Dependents(store, last.table, last.id) : d[1] = "favorites"

ReferenceKeys(name) == {fk[2] : fk \in {fk \in ForeignKeys : fk[1] = name}}

ParentExists(name, key, val) ==
    \E fk \in ForeignKeys :
        /\ fk[1] = name /\ fk[2] = key
        /\ \E r \in store[fk[3]] : r["id"] = val

\* C8: every foreign-key reference is optional: an Episode, WatchHistory or
\* Favorite payload that leaves references out (or gives null) is accepted
\* and persisted with those references null.
C8_OptionalReferences ==
    (/\ last.op = "insert" /\ last.table \in {"episodes", "watchHistory", "favorites"}
     /\ RequiredFields(last.table) \subseteq DOMAIN last.payload
     /\ \A k \in ReferenceKeys(last.table) :
           Get(last.payload, k) # Null => ParentExists(last.table, k, last.payload[k]))
    => /\ last.success /\ last.ok
       /\ last.row \in store[last.table]
       /\ \A k \in ReferenceKeys(last.table) : last.row[k] = Get(last.payload, k)

C8_Witness ==
    /\ last.op = "insert" /\ last.table = "episodes" /\ last.ok
    /\ "seriesId" \notin DOMAIN last.payload
    /\ \E r \in store["episodes"] : r = last.row /\ r["seriesId"] = Null

RowById(rows, id) == CHOOSE r \in rows : r["id"] = id

\* C9: the validator accepts every integer progressPercentage and boolean
\* completed, the row is stored with exactly those values, and an update of
\* one of the two fields leaves the other unchanged.
C9_ProgressIndependent ==
    [][/\ (last'.op = "insert" /\ last'.table = "watchHistory")
          => /\ last'.success /\ last'.ok
             /\ last'.row \in store'["watchHistory"]
             /\ \A k \in {"progressPercentage", "completed"} \cap DOMAIN last'.payload :
                   last'.row[k] = last'.payload[k]
       /\ (last'.op = "update" /\ last'.table = "watchHistory")
          => /\ last'.ok
             /\ \A k \in {"progressPercentage", "completed"} :
                   RowById(store'["watchHistory"], last'.id)[k] =
                       IF k \in DOMAIN last'.payload THEN last'.payload[k]
                       ELSE RowById(store["watchHistory"], last'.id)[k]]_vars

C9_Witness ==
    /\ last.op = "update" /\ last.table = "watchHistory"
    /\ \E r \in store["watchHistory"] :
          r["completed"] = Bool(TRUE) /\ r["progressPercentage"] = Num(0)
    /\ \E r \in store["watchHistory"] :
          r["completed"] = Bool(FALSE) /\ r["progressPercentage"] = Num(100)

ManyDeclared ==
    {<<"series", "episodes">>, <<"series", "watchHistory">>, <<"series", "favorites">>,
     <<"episodes", "watchHistory">>, <<"users", "watchHistory">>, <<"users", "favorites">>}

RelationKeys(kind) ==
    {tk \in UNION {{<<t, k>> : k \in DOMAIN Relations(t)} : t \in TableNames} :
        Relations(tk[1])[tk[2]].kind = kind}

\* the declarations alone: inverses and join columns
RelationsWellFormed ==
    /\ {<<tk[1], Relations(tk[1])[tk[2]].target>> : tk \in RelationKeys("many")} = ManyDeclared
    /\ \A tk \in RelationKeys("many") :
          Cardinality(Reverse(tk[1], Relations(tk[1])[tk[2]])) = 1
    /\ \A tk \in RelationKeys("one") :
          LET rel == Relations(tk[1])[tk[2]]
          IN /\ rel.fields[1] = tk[1]
             /\ rel.references = <<rel.target, "id">>
             /\ <<tk[1], rel.fields[2], rel.target>> \in ForeignKeys
             /\ ColumnOf(tk[1], rel.fields[2]).ref.table = rel.target
             /\ ColumnOf(tk[1], rel.fields[2]).ref.column = "id"

ManyRelationKeys == RelationKeys("many")

\* C10: every 'many' relation has exactly one inverse 'one' relation, every
\* 'one' relation joins a foreign-key column of its table with the id of the
\* table that column references, and a row X is in the 'many' collection of
\* a row a exactly when the inverse 'one' relation of X resolves to a.
C10_RelationsConsistent ==
    /\ RelationsWellFormed
    /\ \A tk \in ManyRelationKeys :
          LET rel == Relations(tk[1])[tk[2]]
          IN \A a \in store[tk[1]] : \A x \in store[rel.target] :
                x \in Related(tk[1], tk[2], a, store)
                <=> \E inv \in Reverse(tk[1], rel) : a \in Related(rel.target, inv, x, store)

C10_Witness ==
    \E a \in store["series"] : \E x \in store["favorites"] :
        /\ x \in Related("series", "favorites", a, store)
        /\ a \in Related("favorites", "series", x, store)
        /\ x["userId"] = Null

====
